---- MODULE Spec2Model ----
(***************************************************************************)
(* audio2anki: the transcript-to-clip pipeline of src/main.py.             *)
(*                                                                         *)
(* One run of main() reads the transcript rows, merges them into           *)
(* sentence-level rows, and for every merged row parses its timing, slices *)
(* the audio, encodes the clip, stores it under a name derived from the    *)
(* MD5 digest of its bytes, and adds a note; at the end every .mp3 of the  *)
(* clip directory is listed and handed, with the notes, to the packager.   *)
(*                                                                         *)
(* Texts are sequences of one-character strings.  A timing cell of the TSV *)
(* file is a record describing the text of the cell (a decimal number with *)
(* sign, whole part and first fractional digit, or a non-number).  Encoded *)
(* clips are short sequences of byte values; the encoder (pydub/ffmpeg) is *)
(* external, so its output is any member of Bytes, or a failure.           *)
(***************************************************************************)
EXTENDS Integers, Sequences, FiniteSets, TLC

VARIABLES
    transcript,     \* the rows of the transcript TSV file on disk
    audio_length,   \* len(audio), in milliseconds
    dir,            \* the clip directory audio_dir: filename -> file content
    pc,             \* position of main()
    error,          \* the exception that ended the run, "" when none
    rows,           \* rows (the TSV rows, then the merged rows)
    i,              \* index of the merge loop
    merged_rows,
    merged_start,
    merged_end,
    merged_text,
    k,              \* number of rows the segment loop has finished
    start_ms,
    end_ms,
    text,
    clip,           \* the slice of the audio: [from, to, fade_in]
    clip_data,
    clip_filename,
    notes,          \* my_deck.notes
    media_files,
    package,        \* what package.write_to_file was given, <<>> before
    stored          \* history: every byte string the store step (line 429) was given

vars == <<transcript, audio_length, dir, pc, error, rows, i, merged_rows,
          merged_start, merged_end, merged_text, k, start_ms, end_ms, text,
          clip, clip_data, clip_filename, notes, media_files, package, stored>>

mergeVars == <<rows, i, merged_rows, merged_start, merged_end, merged_text>>
segVars == <<start_ms, end_ms, text, clip, clip_data, clip_filename>>
inputVars == <<transcript, audio_length>>

(***************************************************************************)
(* Texts                                                                   *)
(***************************************************************************)
IsSpace(c) == c = " "

RECURSIVE LStrip(_)
LStrip(s) == IF s # <<>> /\ IsSpace(Head(s)) THEN LStrip(Tail(s)) ELSE s

RECURSIVE RStrip(_)
RStrip(s) ==
    IF s # <<>> /\ IsSpace(s[Len(s)]) THEN RStrip(SubSeq(s, 1, Len(s) - 1)) ELSE s

\* str.strip()
Strip(s) == LStrip(RStrip(s))

\* str.endswith(c)
EndsWith(s, c) == s # <<>> /\ s[Len(s)] = c

\* the bug "a terminator anywhere in the text"
ContainsTerminator(txt) == \E n \in 1..Len(txt) : txt[n] \in {".", "!", "?"}

is_complete_sentence(txt) ==
    LET t == Strip(txt)
    IN  EndsWith(t, ".") \/ EndsWith(t, "!") \/ EndsWith(t, "?")

(***************************************************************************)
(* Timing cells and int(float(cell))                                       *)
(***************************************************************************)
Cell(kind, neg, whole, frac) ==
    [kind |-> kind, neg |-> neg, whole |-> whole, frac |-> frac]

Ms(n) == Cell("num", FALSE, n, 0)          \* "2000"
Word == Cell("word", FALSE, 0, 0)          \* "abc"
Empty == Cell("empty", FALSE, 0, 0)        \* ""
NaN == Cell("nan", FALSE, 0, 0)            \* "nan"
Inf == Cell("inf", FALSE, 0, 0)            \* "inf"
NoCell == Cell("unset", FALSE, 0, 0)       \* a local not yet assigned

\* int(float(cell)): the value, truncated toward zero, or the exception raised
IntFloat(cell) ==
    CASE cell.kind = "num" ->
            [raises |-> "", value |-> IF cell.neg THEN 0 - cell.whole ELSE cell.whole]
      [] cell.kind = "inf" -> [raises |-> "OverflowError", value |-> 0]
      [] OTHER -> [raises |-> "ValueError", value |-> 0]

\* lines 402-403: start is converted first, end only when start succeeded
ParseTiming(row) ==
    LET s == IntFloat(row.start)
        e == IntFloat(row.end)
    IN  IF s.raises # "" THEN [raises |-> s.raises, start |-> 0, end |-> 0]
        ELSE IF e.raises # "" THEN [raises |-> e.raises, start |-> 0, end |-> 0]
        ELSE [raises |-> "", start |-> s.value, end |-> e.value]

(***************************************************************************)
(* Merge loop, lines 271-295                                               *)
(***************************************************************************)
ReadTranscript ==
    /\ pc = "read"
    /\ rows' = transcript
    /\ merged_rows' = <<>>
    /\ i' = 0
    /\ pc' = "merge"
    /\ UNCHANGED <<inputVars, dir, error, merged_start, merged_end, merged_text,
                   k, segVars, notes, media_files, package, stored>>

MergeBegin ==
    /\ pc = "merge"
    /\ i < Len(rows)
    /\ LET current == rows[i + 1]
       IN  /\ merged_start' = current.start
           /\ merged_end' = current.end
           /\ merged_text' = Strip(current.text)
    /\ pc' = "absorb"
    /\ UNCHANGED <<inputVars, dir, error, rows, i, merged_rows,
                   k, segVars, notes, media_files, package, stored>>

\* the guard of the inner while loop, line 286
MoreToAbsorb == ~is_complete_sentence(merged_text) /\ (i + 1) < Len(rows)

\* the bug "the end of the absorbed fragment is not taken over"
MergeAbsorbKeepsEnd ==
    /\ pc = "absorb"
    /\ MoreToAbsorb
    /\ merged_text' = merged_text \o <<" ">> \o Strip(rows[i + 2].text)
    /\ i' = i + 1
    /\ UNCHANGED <<inputVars, dir, pc, error, rows, merged_rows, merged_start,
                   merged_end, k, segVars, notes, media_files, package, stored>>

MergeAbsorb ==
    /\ pc = "absorb"
    /\ MoreToAbsorb
    /\ LET next_row == rows[i + 2]
       IN  /\ merged_end' = next_row.end
           /\ merged_text' = merged_text \o <<" ">> \o Strip(next_row.text)
    /\ i' = i + 1
    /\ UNCHANGED <<inputVars, dir, pc, error, rows, merged_rows, merged_start,
                   k, segVars, notes, media_files, package, stored>>

MergeEmit ==
    /\ pc = "absorb"
    /\ ~MoreToAbsorb
    /\ merged_rows' = Append(merged_rows,
            [start |-> merged_start, end |-> merged_end, text |-> merged_text])
    /\ i' = i + 1
    /\ pc' = "merge"
    /\ UNCHANGED <<inputVars, dir, error, rows, merged_start, merged_end,
                   merged_text, k, segVars, notes, media_files, package, stored>>

\* line 295, and the deck set up empty (line 357)
MergeDone ==
    /\ pc = "merge"
    /\ ~(i < Len(rows))
    /\ rows' = merged_rows
    /\ notes' = <<>>
    /\ k' = 0
    /\ pc' = "segments"
    /\ UNCHANGED <<inputVars, dir, error, i, merged_rows, merged_start, merged_end,
                   merged_text, segVars, media_files, package, stored>>

(***************************************************************************)
(* Clip files                                                              *)
(***************************************************************************)
Pad == 1000

\* size of the digest space the MD5 digest is abstracted into
DigestSpace == 4

\* what clip.export can produce
Bytes == {<<1, 2>>, <<2, 1>>, <<1, 1>>}

RECURSIVE Sum(_)
Sum(b) == IF b = <<>> THEN 0 ELSE Head(b) + Sum(Tail(b))

\* hashlib.md5(clip_data).hexdigest(): a digest of the bytes in a finite space,
\* so distinct byte strings can share a digest (here <<1, 2>> and <<2, 1>>)
Md5(b) == Sum(b) % DigestSpace

\* f"clip_{clip_hash}.mp3"
ClipFilename(h) == [prefix |-> "clip_", digest |-> h, ext |-> ".mp3"]

\* f"[sound:{clip_filename}]"
SoundRef(fn) == <<"[sound:", fn, "]">>

\* os.path.join(audio_dir, file)
PathJoin(fn) == <<"audio_dir", fn>>

\* order of filenames: all share the prefix, the hex digests have one width
NameLess(a, b) == a.digest < b.digest

RECURSIVE Sorted(_)
Sorted(S) ==
    IF S = {} THEN <<>>
    ELSE LET m == CHOOSE x \in S : \A y \in S : ~NameLess(y, x)
         IN  <<m>> \o Sorted(S \ {m})

RECURSIVE MapPath(_)
MapPath(q) == IF q = <<>> THEN <<>> ELSE <<PathJoin(Head(q))>> \o MapPath(Tail(q))

\* the bug "only the files this run's notes reference"
ListMediaOfNotes(d) ==
    MapPath(SelectSeq(Sorted(DOMAIN d),
                      LAMBDA fn : \E j \in 1..Len(notes) : notes[j][1] = SoundRef(fn)))

\* lines 444-448
ListMedia(d) ==
    MapPath(SelectSeq(Sorted(DOMAIN d), LAMBDA fn : fn.ext = ".mp3"))

Min(a, b) == IF a <= b THEN a ELSE b

\* the bug "no post-roll"
ExtendedEndNoPad(e) == Min(audio_length, e)

\* line 409
ExtendedEnd(e) == Min(audio_length, e + Pad)

\* the bug "> instead of >="
SliceStrict(s, e) ==
    IF s > Pad
    THEN [from |-> s - Pad, to |-> ExtendedEnd(e), fade_in |-> TRUE]
    ELSE [from |-> s, to |-> ExtendedEnd(e), fade_in |-> FALSE]

\* lines 411-415: the slice taken from the audio and whether it is faded in
Slice(s, e) ==
    IF s >= Pad
    THEN [from |-> s - Pad, to |-> ExtendedEnd(e), fade_in |-> TRUE]
    ELSE [from |-> s, to |-> ExtendedEnd(e), fade_in |-> FALSE]

\* lines 433-441
Note(fn, txt) == <<SoundRef(fn), txt, <<>>, <<>>>>

(***************************************************************************)
(* Segment loop, lines 400-442                                             *)
(***************************************************************************)
\* lines 401-406: ValueError is caught, the row is skipped
ParseSkip ==
    /\ pc = "segments"
    /\ k < Len(rows)
    /\ ParseTiming(rows[k + 1]).raises = "ValueError"
    /\ k' = k + 1
    /\ UNCHANGED <<inputVars, dir, pc, error, mergeVars, segVars, notes,
                   media_files, package, stored>>

\* lines 401-404: any other exception leaves main()
ParseAbort ==
    /\ pc = "segments"
    /\ k < Len(rows)
    /\ ParseTiming(rows[k + 1]).raises \notin {"", "ValueError"}
    /\ error' = ParseTiming(rows[k + 1]).raises
    /\ pc' = "aborted"
    /\ UNCHANGED <<inputVars, dir, mergeVars, k, segVars, notes,
                   media_files, package, stored>>

\* lines 402-415
ResolveWindow ==
    /\ pc = "segments"
    /\ k < Len(rows)
    /\ LET t == ParseTiming(rows[k + 1])
       IN  /\ t.raises = ""
           /\ start_ms' = t.start
           /\ end_ms' = t.end
           /\ clip' = Slice(t.start, t.end)
    /\ text' = rows[k + 1].text
    /\ pc' = "export"
    /\ UNCHANGED <<inputVars, dir, error, mergeVars, k, clip_data, clip_filename,
                   notes, media_files, package, stored>>

\* lines 417-428
Export ==
    /\ pc = "export"
    /\ \E b \in Bytes :
          /\ clip_data' = b
          /\ clip_filename' = ClipFilename(Md5(b))
    /\ pc' = "store"
    /\ UNCHANGED <<inputVars, dir, error, mergeVars, k, start_ms, end_ms, text, clip,
                   notes, media_files, package, stored>>

\* line 424: the encoder fails; nothing catches the exception
ExportFails ==
    /\ pc = "export"
    /\ error' = "CouldntEncodeError"
    /\ pc' = "aborted"
    /\ UNCHANGED <<inputVars, dir, mergeVars, k, segVars, notes,
                   media_files, package, stored>>

\* the bug "no exists check": the file is written again
StoreExistingRewrites ==
    /\ pc = "store"
    /\ clip_filename \in DOMAIN dir
    /\ dir' = [dir EXCEPT ![clip_filename] = clip_data]
    /\ stored' = stored \cup {clip_data}
    /\ notes' = Append(notes, Note(clip_filename, text))
    /\ k' = k + 1
    /\ pc' = "segments"
    /\ UNCHANGED <<inputVars, error, mergeVars, segVars, media_files, package>>

\* line 429 false, then lines 433-442
StoreExisting ==
    /\ pc = "store"
    /\ clip_filename \in DOMAIN dir
    /\ stored' = stored \cup {clip_data}
    /\ notes' = Append(notes, Note(clip_filename, text))
    /\ k' = k + 1
    /\ pc' = "segments"
    /\ UNCHANGED <<inputVars, dir, error, mergeVars, segVars, media_files, package>>

\* line 429 true, line 430: open(clip_path, "wb") creates the file, empty
StoreOpen ==
    /\ pc = "store"
    /\ clip_filename \notin DOMAIN dir
    /\ dir' = dir @@ (clip_filename :> <<>>)
    /\ stored' = stored \cup {clip_data}
    /\ pc' = "write"
    /\ UNCHANGED <<inputVars, error, mergeVars, k, segVars, notes,
                   media_files, package>>

\* line 431 and the close of the file, then lines 433-442
StoreWrite ==
    /\ pc = "write"
    /\ dir' = [dir EXCEPT ![clip_filename] = clip_data]
    /\ notes' = Append(notes, Note(clip_filename, text))
    /\ k' = k + 1
    /\ pc' = "segments"
    /\ UNCHANGED <<inputVars, error, mergeVars, segVars, media_files, package, stored>>

\* lines 444-448
ScanMedia ==
    /\ pc = "segments"
    /\ k = Len(rows)
    /\ media_files' = ListMedia(dir)
    /\ pc' = "package"
    /\ UNCHANGED <<inputVars, dir, error, mergeVars, k, segVars, notes,
                   package, stored>>

\* lines 457-460
WritePackage ==
    /\ pc = "package"
    /\ package' = [notes |-> notes, media_files |-> media_files]
    /\ pc' = "done"
    /\ UNCHANGED <<inputVars, dir, error, mergeVars, k, segVars, notes,
                   media_files, stored>>

(***************************************************************************)
(* The process is stopped from outside, and main() is run again            *)
(***************************************************************************)
\* the process is interrupted between two segments or during a clip write
Cancel ==
    /\ pc \in {"segments", "write"}
    /\ error' = "KeyboardInterrupt"
    /\ pc' = "killed"
    /\ UNCHANGED <<inputVars, dir, mergeVars, k, segVars, notes,
                   media_files, package, stored>>

\* the locals of a process that starts main()
Fresh ==
    /\ pc = "read"
    /\ error = ""
    /\ rows = <<>>
    /\ i = 0
    /\ merged_rows = <<>>
    /\ merged_start = NoCell
    /\ merged_end = NoCell
    /\ merged_text = <<>>
    /\ k = 0
    /\ start_ms = 0
    /\ end_ms = 0
    /\ text = <<>>
    /\ clip = [from |-> 0, to |-> 0, fade_in |-> FALSE]
    /\ clip_data = <<>>
    /\ clip_filename = ClipFilename(0)
    /\ notes = <<>>
    /\ media_files = <<>>
    /\ package = <<>>

\* main() is started again over the same transcript and clip directory
Rerun ==
    /\ pc \in {"done", "aborted", "killed"}
    /\ pc' = "read"
    /\ error' = ""
    /\ rows' = <<>>
    /\ i' = 0
    /\ merged_rows' = <<>>
    /\ merged_start' = NoCell
    /\ merged_end' = NoCell
    /\ merged_text' = <<>>
    /\ k' = 0
    /\ start_ms' = 0
    /\ end_ms' = 0
    /\ text' = <<>>
    /\ clip' = [from |-> 0, to |-> 0, fade_in |-> FALSE]
    /\ clip_data' = <<>>
    /\ clip_filename' = ClipFilename(0)
    /\ notes' = <<>>
    /\ media_files' = <<>>
    /\ package' = <<>>
    /\ UNCHANGED <<inputVars, dir, stored>>

(***************************************************************************)
(* Inputs                                                                  *)
(***************************************************************************)
MaxMergeRows == 3
MaxRunRows == 2
MaxRows == 3

Row(s, e, t) == [start |-> s, end |-> e, text |-> t]

SeqsUpTo(S, n) == UNION {[1..m -> S] : m \in 0..n}

Hei == <<"H", "e", "i">>
Maailma == <<"m", "a", "a", "i", "l", "m", "a", ".">>
HeiMaailma == <<"H", "e", "i", " ", "m", "a", "a", "i", "l", "m", "a", ".">>
Ok == <<" ", "o", "k", "!", " ">>
Blank == <<" ">>
Mid == <<"a", "?", "b">>
No == <<"n", "o", "?">>

MergeFragments ==
    {Row(t[1], t[2], x) :
        t \in {<<Ms(0), Ms(2000)>>, <<Ms(2000), Ms(4000)>>},
        x \in {Hei, Maailma, Ok, Blank, Mid}}

RunFragments ==
    { Row(Ms(0), Ms(2000), Hei),
      Row(Ms(2000), Ms(4000), Maailma),
      Row(Ms(999), Ms(3000), Ok),
      Row(Ms(1000), Ms(3000), No),
      Row(Ms(5000), Ms(6000), No),
      Row(Ms(7000), Ms(8000), No),
      Row(Cell("num", FALSE, 2500, 7), Ms(4000), No),
      Row(Cell("num", TRUE, 500, 0), Ms(1500), No),
      Row(Word, Ms(2000), No),
      Row(Ms(1000), Empty, No),
      Row(NaN, Ms(2000), No),
      Row(Ms(1000), Inf, No) }

StoreFragments ==
    { Row(Ms(0), Ms(2000), Hei),
      Row(Ms(2000), Ms(4000), Maailma),
      Row(Word, Ms(2000), No),
      Row(Ms(1000), Inf, No) }

EmptyDir == [fn \in {} |-> <<>>]

InitMerge ==
    /\ transcript \in SeqsUpTo(MergeFragments, MaxMergeRows)
    /\ audio_length = 5000
    /\ dir = EmptyDir
    /\ stored = {}
    /\ Fresh

InitRun ==
    /\ transcript \in SeqsUpTo(RunFragments, MaxRunRows)
    /\ audio_length \in {5000, 6200}
    /\ dir = EmptyDir
    /\ stored = {}
    /\ Fresh

Init ==
    /\ transcript \in SeqsUpTo(StoreFragments, MaxRows)
    /\ audio_length = 5000
    /\ dir = EmptyDir
    /\ stored = {}
    /\ Fresh

NextMerge ==
    \/ ReadTranscript
    \/ MergeBegin
    \/ MergeAbsorb
    \/ MergeEmit
    \/ MergeDone

NextRun ==
    \/ NextMerge
    \/ ParseSkip
    \/ ParseAbort
    \/ ResolveWindow
    \/ Export
    \/ ExportFails
    \/ StoreExisting
    \/ StoreOpen
    \/ StoreWrite
    \/ ScanMedia
    \/ WritePackage

Next ==
    \/ NextRun
    \/ Cancel
    \/ Rerun

\* the merge loop alone, over every transcript of up to MaxMergeRows rows
SpecMerge == InitMerge /\ [][NextMerge]_vars

\* one run of main() over an empty clip directory
SpecRun == InitRun /\ [][NextRun]_vars

\* runs of main(), interrupted or not, one after the other over one directory
Spec == Init /\ [][Next]_vars

(***************************************************************************)
(* Merge loop: claims C1, C2                                               *)
(***************************************************************************)
\* the text, trimmed, ends with a sentence terminator
Terminated(txt) ==
    LET t == Strip(txt)
    IN  t # <<>> /\ t[Len(t)] \in {".", "!", "?"}

\* C1: every segment the merge loop has produced ends, after trimming, with
\* '.', '!' or '?', unless it is the last segment and was emitted when the
\* fragment list was exhausted (all fragments consumed).
C1_SegmentsTerminated ==
    \A j \in 1..Len(merged_rows) :
        \/ Terminated(merged_rows[j].text)
        \/ j = Len(merged_rows) /\ i = Len(transcript)

C1_Witness ==
    /\ pc = "segments"
    /\ Len(transcript) = 3
    /\ Len(merged_rows) = 2
    /\ Terminated(merged_rows[1].text)
    /\ ~Terminated(merged_rows[2].text)

\* the trimmed texts of fragments a..b joined by single spaces
RECURSIVE Joined(_, _)
Joined(a, b) ==
    IF a = b THEN Strip(transcript[a].text)
    ELSE Joined(a, b - 1) \o <<" ">> \o Strip(transcript[b].text)

SegmentIsRun(seg, a, b) ==
    /\ seg.start = transcript[a].start
    /\ seg.end = transcript[b].end
    /\ seg.text = Joined(a, b)

\* segments j, j+1, ... are consecutive runs that cover fragments a..N exactly
RECURSIVE Covers(_, _)
Covers(j, a) ==
    IF j > Len(rows) THEN a = Len(transcript) + 1
    ELSE \E b \in a..Len(transcript) :
            SegmentIsRun(rows[j], a, b) /\ Covers(j + 1, b + 1)

OnlyLastTerminated ==
    /\ Len(transcript) >= 1
    /\ \A n \in 1..(Len(transcript) - 1) : ~Terminated(transcript[n].text)

\* C2: when the merge loop is over, the segments are consecutive runs of the
\* fragments in order, covering every fragment exactly once; a segment has the
\* start of its run's first fragment, the end of its last, and the run's trimmed
\* texts joined by single spaces.  N fragments of which none but the last is
\* terminated give one segment; no fragments give no segment.
C2_MergePartitions ==
    pc = "segments" =>
        /\ Covers(1, 1)
        /\ OnlyLastTerminated =>
              Len(rows) = 1 /\ SegmentIsRun(rows[1], 1, Len(transcript))
        /\ transcript = <<>> => rows = <<>>

C2_Witness ==
    /\ pc = "segments"
    /\ Len(transcript) = 3
    /\ Len(rows) = 2
    /\ SegmentIsRun(rows[1], 1, 2)
    /\ rows[1].start # rows[2].start
    /\ rows[1].end # transcript[1].end

(***************************************************************************)
(* Segment loop: claims C3, C4, C5, C7, C8                                 *)
(***************************************************************************)
\* the segment loop holds a slice for the current row rows[k + 1]
HasWindow == pc \in {"export", "store", "write"}

\* the cell is the text of a non-negative number
ValidCell(cell) == cell.kind = "num" /\ ~cell.neg

\* C3: for a segment that is not skipped, the window used to slice the audio
\* satisfies 0 <= extractStart < extractEnd <= totalDuration.  (Stated for the
\* rows whose start and end are non-negative numbers, the rows C7 lets through.)
C3_WindowInsideAudio ==
    (HasWindow /\ ValidCell(rows[k + 1].start) /\ ValidCell(rows[k + 1].end)) =>
        /\ 0 <= clip.from
        /\ clip.from < clip.to
        /\ clip.to <= audio_length

\* C4: extractEnd = min(totalDuration, end + 1000); extractStart = start - 1000
\* when start >= 1000, else start; start 1000 gives 0 with pre-roll, start 999
\* gives 999 without; {5000, 6000} in 6200 ms of audio gives {4000, 6200}.
C4_WindowArithmetic ==
    HasWindow =>
        /\ start_ms = IntFloat(rows[k + 1].start).value
        /\ end_ms = IntFloat(rows[k + 1].end).value
        /\ clip.to = (IF end_ms + 1000 < audio_length THEN end_ms + 1000
                      ELSE audio_length)
        /\ start_ms >= 1000 => clip.from = start_ms - 1000 /\ clip.fade_in
        /\ start_ms < 1000 => clip.from = start_ms /\ ~clip.fade_in
        /\ start_ms = 1000 => clip.from = 0
        /\ start_ms = 999 => clip.from = 999
        /\ (start_ms = 5000 /\ end_ms = 6000 /\ audio_length = 6200) =>
              clip.from = 4000 /\ clip.to = 6200

C4_Witness ==
    /\ pc = "export"
    /\ rows[k + 1].start = Ms(5000)
    /\ rows[k + 1].end = Ms(6000)
    /\ audio_length = 6200
    /\ clip = [from |-> 4000, to |-> 6200, fade_in |-> TRUE]

\* the scenario of C5
C5_Scenario ==
    /\ transcript = <<Row(Ms(0), Ms(2000), Hei), Row(Ms(2000), Ms(4000), Maailma)>>
    /\ audio_length = 5000

\* the scenario's result apart from the end of the window
C5_Result ==
    /\ pc = "segments" =>
          rows = <<[start |-> Ms(0), end |-> Ms(4000), text |-> HeiMaailma]>>
    /\ HasWindow => clip.from = 0 /\ ~clip.fade_in
    /\ pc = "done" =>
          /\ Cardinality(DOMAIN dir) = 1
          /\ Cardinality(stored) = 1
          /\ \E fn \in DOMAIN dir :
                /\ dir[fn] = clip_data
                /\ fn = ClipFilename(Md5(clip_data))
                /\ package.notes = <<Note(fn, HeiMaailma)>>
                /\ package.media_files = <<PathJoin(fn)>>

\* C5 as claimed: the window of the scenario's segment ends at 4000.
C5_AsClaimed ==
    C5_Scenario => (C5_Result /\ (HasWindow => clip.to = 4000))

\* C5, amended: fragments [{0, 2000, "Hei"}, {2000, 4000, "maailma."}] in 5000 ms
\* of audio give one segment {0, 4000, "Hei maailma."}, the window {0, 5000}
\* (end + 1000 ms, no pre-roll), one clip, one file and one note that references
\* the file with the text "Hei maailma.".
C5_EndToEnd ==
    C5_Scenario => (C5_Result /\ (HasWindow => clip.to = 5000))

C5_Witness ==
    /\ C5_Scenario
    /\ pc = "done"
    /\ Len(package.notes) = 1
    /\ clip.to = 5000

\* C7: a segment whose start or end is not the text of a non-negative number is
\* skipped: it gets no clip and no note, and it does not end the run.
C7_InvalidTimingSkipped ==
    /\ HasWindow => ValidCell(rows[k + 1].start) /\ ValidCell(rows[k + 1].end)
    /\ pc = "aborted" => error \notin {"ValueError", "OverflowError"}

\* C8: a failure to encode one segment's clip does not end the run.
C8_RenderFailureNotFatal ==
    error = "CouldntEncodeError" => pc # "aborted"

(***************************************************************************)
(* Store and deck: claims C6, C9, C10                                      *)
(***************************************************************************)
\* C6 as claimed: the directory holds exactly one file per distinct byte content
\* the store was given.
C6_OneFilePerContent == Cardinality(DOMAIN dir) = Cardinality(stored)

\* C6, amended: the directory holds exactly one file per distinct digest of the
\* byte contents the store was given, named clip_<digest>.mp3 (contents with
\* one digest share one file); no step but the write of a file just created
\* changes or removes a file that exists, so that storing bytes whose file
\* exists leaves the directory as it is; and the filename a note references is
\* determined by the clip's bytes alone.
C6_OneFilePerDigest ==
    [][ /\ DOMAIN dir' = {ClipFilename(Md5(b)) : b \in stored'}
        /\ pc # "write" =>
              \A fn \in DOMAIN dir : fn \in DOMAIN dir' /\ dir'[fn] = dir[fn]
        /\ Len(notes') = Len(notes) + 1 =>
              notes'[Len(notes')][1] = <<"[sound:", ClipFilename(Md5(clip_data)), "]">>
      ]_vars

\* two segments of one run reference one file, beside the file of another clip
C6_Witness ==
    /\ pc = "done"
    /\ Len(notes) = 2
    /\ notes[1][1] = notes[2][1]
    /\ Cardinality(DOMAIN dir) = 2
    /\ stored = {<<1, 2>>, <<1, 1>>}

Range(q) == {q[n] : n \in 1..Len(q)}

\* the rows the segment loop does not skip
RECURSIVE Kept(_)
Kept(q) ==
    IF q = <<>> THEN <<>>
    ELSE IF IntFloat(Head(q).start).raises = "" /\ IntFloat(Head(q).end).raises = ""
         THEN <<Head(q)>> \o Kept(Tail(q))
         ELSE Kept(Tail(q))

\* C9: at hand-off the notes are the rows not skipped, in order, each
\* {[sound:<filename>], text, "", ""}; the media files are every .mp3 of the clip
\* directory, those of earlier runs too, sorted by filename; and every note's
\* file is among the media files.
C9_DeckConsistent ==
    pc = "done" =>
        /\ Len(package.notes) = Len(Kept(rows))
        /\ \A j \in 1..Len(package.notes) :
              \E fn \in DOMAIN dir :
                 /\ package.notes[j] = <<<<"[sound:", fn, "]">>, Kept(rows)[j].text, <<>>, <<>>>>
                 /\ <<"audio_dir", fn>> \in Range(package.media_files)
        /\ Range(package.media_files) =
              {<<"audio_dir", fn>> : fn \in {f \in DOMAIN dir : f.ext = ".mp3"}}
        /\ \A a, b \in 1..Len(package.media_files) :
              a < b => package.media_files[a][2].digest < package.media_files[b][2].digest

\* a row was skipped, and the directory holds a file of an earlier run
C9_Witness ==
    /\ pc = "done"
    /\ Len(rows) = 2
    /\ Len(package.notes) = 1
    /\ Len(package.media_files) = 2

\* C10: but while a file is being written, every clip_<h>.mp3 of the directory
\* holds complete bytes whose digest is h.
C10_ClipFilesComplete ==
    pc # "write" => \A fn \in DOMAIN dir : dir[fn] \in Bytes /\ Md5(dir[fn]) = fn.digest

====
